---- MODULE Spec2Model ----
(***************************************************************************)
(* Merge editor input models (Temp-File and Workspace variants), their     *)
(* factories and the MergeEditorInput that resolves them.                  *)
(*                                                                         *)
(* Every `await` of the TypeScript source is a suspension point: a handler *)
(* is split into one action per synchronous segment, and the position of   *)
(* each suspended call is part of the state.                               *)
(***************************************************************************)
EXTENDS Integers, Sequences, FiniteSets, TLC

(* ------------------------------ bounds -------------------------------- *)

\* Temp-File sessions that are open together.
NumSessions == 2
\* Events from outside in one run: content changes of the scratch documents
\* and calls of the session API (accept, save, revert, confirmClose).
MaxEvents == 2
\* Tracked-file records the text file service creates for the result path.
MaxRecords == 2
\* resolve() calls made on one MergeEditorInput.
MaxResolvers == 3
\* dispose() calls made on one session.
MaxDisposes == 2
\* Changes of the version markers under the isDirty observables of one
\* MergeEditorInput's input models.
MaxSignals == 2
\* Events from outside on one Workspace session: edits of the result file and
\* calls of the session API.
MaxWsEvents == 3

Sessions == 1..NumSessions

(* --------------------------- state ------------------------------------ *)

VARIABLES
    \* scratch document of each session (model.resultTextModel)
    altVer,             \* its getAlternativeVersionId()
    undoStack,          \* alternative version ids an undo returns to
    nextVer,            \* the next fresh version id of the document
    \* TempFileMergeEditorInputModel fields
    altVersionId,       \* observableFromEvent(onDidChangeContent, ...)
    savedAltVersionId,  \* observableValue('initialAltVersionId', ...)
    finished,           \* private finished = false
    resultValue,        \* content of the real result document (this.result)
    diskValue,          \* content of the result file as last persisted
    \* history of each session
    savePoint,          \* the marker read at construction / last accept / discard
    \* calls in flight
    op,                 \* the accept()/_discard() run of each caller and session
    cc,                 \* the confirmClose call
    sv,                 \* the async block save() starts, per session
    sv2,                \* the block of a save() call made while that block runs
    svRet,              \* the promise of the save() call that started sv has completed
    calls,              \* number of API calls made
    last,               \* the last API call and what it did at once
    \* one createInputModel call of a factory
    fpc,                \* where the call is
    variant,            \* "temp" or "workspace"
    res,                \* the four createModelReference calls
    held,               \* references acquired and not released
    store,              \* what the call's DisposableStore holds
    storeDisposed,      \* store.dispose() has run
    listening,          \* modelListener holds the files.onDidCreate subscription
    resultTextFileModel,\* the captured ITextFileEditorModel (0: undefined)
    registered,         \* the record textFileService.files tracks for args.result (0: none)
    created,            \* records created for args.result so far
    ferror,             \* why the call was rejected
    released,           \* how often each resource of the call was released
    disposeCalls,       \* dispose() calls made on the session
    \* MergeEditorInput
    inputModel,         \* this._inputModel (0: undefined)
    rpc,                \* where each resolve() call is
    mine,               \* the input model a resolve() call is creating
    ret,                \* what each resolve() call returned
    nCreated,           \* createInputModel calls made by the input
    ownedModels,        \* input models registered with the input (this._register)
    mdirty,             \* isDirty of each input model the input created
    emitted,            \* _onDidChangeDirty notifications fired
    signals,            \* marker changes under the isDirty observables so far
    \* one WorkspaceMergeEditorInputModel
    wsFileDirty,        \* resultTextFileModel.isDirty()
    wsIsDirty,          \* the value the isDirty observable holds
    wsPc,               \* accept(), save() and revert() in flight
    wsLast,             \* the last close query and its answer
    wsEvents            \* events from outside so far

docVars == <<altVer, undoStack, nextVer>>
sessVars == <<altVersionId, savedAltVersionId, finished, resultValue, diskValue>>
histVars == <<savePoint>>
callVars == <<op, cc, sv, sv2, svRet, calls, last>>
sessionVars == <<docVars, sessVars, histVars, callVars>>
factVars == <<fpc, variant, res, held, store, storeDisposed, listening,
              resultTextFileModel, registered, created, ferror, released, disposeCalls>>
inputVars == <<inputModel, rpc, mine, ret, nCreated, ownedModels>>
notifyVars == <<mdirty, emitted, signals>>
wsVars == <<wsFileDirty, wsIsDirty, wsPc, wsLast, wsEvents>>
vars == <<sessionVars, factVars, inputVars, notifyVars, wsVars>>

(* ------------------------ values and helpers -------------------------- *)

\* Who runs an accept()/_discard(): MergeEditorInput.accept, save()'s async
\* block, or confirmClose.
Owners == {"dir", "sv", "sv2", "cc"}
OpIds == Owners \X Sessions

IdleOp == [kind |-> "none", pc |-> "idle", wasFinished |-> FALSE, edited |-> FALSE]
IdleCc == [pc |-> "idle", set |-> {}, dirtyAtCall |-> {}, choice |-> -1, result |-> "none"]
NoCall == [api |-> "none", s |-> 0, noop |-> FALSE]

OriginalValue == [kind |-> "original", ver |-> 0]

\* model.getResultValueWithConflictMarkers(): the text the merge model computes
\* from the scratch document as it is when the value is delivered.
MergeValue(s) == [kind |-> "merge", ver |-> altVer[s]]

\* observableFromEvent's getter: model.resultTextModel.getAlternativeVersionId()
ReadAltVersionId(v) == v

IsDirtyStale(alt, saved) == alt > saved

\* derived('isDirty', reader => altVersionId.read(reader) !== savedAltVersionId.read(reader))
IsDirty(alt, saved) == alt # saved

isDirty(s) == IsDirty(altVersionId[s], savedAltVersionId[s])

Settled(o) == op[o].pc \in {"idle", "ok", "fail"}

\* a content change is noted in every accept() of the session that has started
MarkEdited(s) ==
    [o \in OpIds |->
        IF o[2] = s /\ op[o].kind = "accept" THEN [op[o] EXCEPT !.edited = TRUE] ELSE op[o]]

(* ------------------------------ Init ---------------------------------- *)

InitSessions ==
    /\ altVer = [s \in Sessions |-> 0]
    /\ undoStack = [s \in Sessions |-> <<>>]
    /\ nextVer = [s \in Sessions |-> 1]
    /\ altVersionId = [s \in Sessions |-> ReadAltVersionId(0)]
    /\ savedAltVersionId = [s \in Sessions |-> 0]
    /\ finished = [s \in Sessions |-> FALSE]
    /\ resultValue = [s \in Sessions |-> OriginalValue]
    /\ diskValue = [s \in Sessions |-> OriginalValue]
    /\ savePoint = [s \in Sessions |-> 0]
    /\ op = [o \in OpIds |-> IdleOp]
    /\ cc = IdleCc
    /\ sv = [s \in Sessions |-> "idle"]
    /\ sv2 = [s \in Sessions |-> "idle"]
    /\ svRet = [s \in Sessions |-> FALSE]
    /\ calls = 0
    /\ last = NoCall

(* --------------------- the scratch document --------------------------- *)

RECURSIVE SumTo(_, _)
SumTo(f, n) == IF n = 0 THEN 0 ELSE f[n] + SumTo(f, n - 1)

\* content changes made so far (each takes one fresh version id)
EditsMade == SumTo(nextVer, NumSessions) - NumSessions

\* one more event from outside fits the run
CanStart == EditsMade + calls < MaxEvents

\* the scratch document of s changed since the session was constructed
Mutated(s) == nextVer[s] > 1

\* The user types in the result editor: a new alternative version id, and the
\* onDidChangeContent event refreshes the altVersionId observable.
Edit(s) ==
    /\ CanStart
    /\ altVer' = [altVer EXCEPT ![s] = nextVer[s]]
    /\ undoStack' = [undoStack EXCEPT ![s] = <<altVer[s]>> \o @]
    /\ nextVer' = [nextVer EXCEPT ![s] = @ + 1]
    /\ altVersionId' = [altVersionId EXCEPT ![s] = ReadAltVersionId(altVer'[s])]
    /\ op' = MarkEdited(s)
    /\ UNCHANGED <<savedAltVersionId, finished, resultValue, diskValue, savePoint, cc, sv, sv2, svRet, calls, last>>
    /\ UNCHANGED <<factVars, inputVars, notifyVars, wsVars>>

\* The user undoes an edit: the document returns to an earlier alternative
\* version id.
Undo(s) ==
    /\ undoStack[s] # <<>>
    /\ altVer' = [altVer EXCEPT ![s] = Head(undoStack[s])]
    /\ undoStack' = [undoStack EXCEPT ![s] = Tail(@)]
    /\ altVersionId' = [altVersionId EXCEPT ![s] = ReadAltVersionId(altVer'[s])]
    /\ op' = MarkEdited(s)
    /\ UNCHANGED <<nextVer, savedAltVersionId, finished, resultValue, diskValue, savePoint, cc, sv, sv2, svRet, calls, last>>
    /\ UNCHANGED <<factVars, inputVars, notifyVars, wsVars>>

(* ------------------- accept() and _discard() -------------------------- *)

\* accept() runs to its first await (model.getResultValueWithConflictMarkers()).
StartedAccept(s) ==
    [kind |-> "accept", pc |-> "a_value", wasFinished |-> finished[s], edited |-> FALSE]

\* _discard() runs to its await of textFileService.revert(...).
StartedDiscard(s) ==
    [kind |-> "discard", pc |-> "d_revert", wasFinished |-> finished[s], edited |-> FALSE]

AcceptKeepsValue(s) == resultValue[s]

AcceptWritesSavedValue(s) == [kind |-> "merge", ver |-> savedAltVersionId[s]]

\* this.result.textEditorModel.setValue(value)
AcceptWrittenValue(s) == MergeValue(s)

AcceptKeepsSavePoint(s) == savedAltVersionId[s]

\* this.savedAltVersionId.set(this.model.resultTextModel.getAlternativeVersionId(), undefined)
AcceptSavedAltVersionId(s) == altVer[s]

DiscardKeepsSavePoint(s) == savedAltVersionId[s]

\* _discard: this.savedAltVersionId.set(this.model.resultTextModel.getAlternativeVersionId(), undefined)
DiscardSavedAltVersionId(s) == altVer[s]

\* accept() resumes with the merge value: writes it to the real result document,
\* records the save point and starts textFileService.save(...).
AcceptDeliver(o) ==
    /\ op[o].kind = "accept" /\ op[o].pc = "a_value"
    /\ resultValue' = [resultValue EXCEPT ![o[2]] = AcceptWrittenValue(o[2])]
    /\ savedAltVersionId' = [savedAltVersionId EXCEPT ![o[2]] = AcceptSavedAltVersionId(o[2])]
    /\ savePoint' = [savePoint EXCEPT ![o[2]] = altVer[o[2]]]
    /\ op' = [op EXCEPT ![o].pc = "a_save"]
    /\ UNCHANGED <<docVars, altVersionId, finished, diskValue, cc, sv, sv2, svRet, calls, last>>
    /\ UNCHANGED <<factVars, inputVars, notifyVars, wsVars>>

MarkedFinishedAlways(ok, fin) == TRUE

\* accept(): await this.textFileService.save(...); this.finished = true
\* (the assignment is skipped when the awaited save rejects)
MarkedFinished(ok, fin) == ok \/ fin

\* textFileService.save(...) settles: on success the content of the real result
\* document is on disk, accept() marks the session finished and returns; on
\* failure accept() rejects.
AcceptPersisted(o, ok) ==
    /\ op[o].kind = "accept" /\ op[o].pc = "a_save"
    /\ finished' = [finished EXCEPT ![o[2]] = MarkedFinished(ok, @)]
    /\ diskValue' = IF ok THEN [diskValue EXCEPT ![o[2]] = resultValue[o[2]]] ELSE diskValue
    /\ op' = [op EXCEPT ![o].pc = IF ok THEN "ok" ELSE "fail"]
    /\ UNCHANGED <<docVars, altVersionId, savedAltVersionId, resultValue, histVars, cc, sv, sv2, svRet, calls, last>>
    /\ UNCHANGED <<factVars, inputVars, notifyVars, wsVars>>

\* _discard: textFileService.revert(this.model.resultTextModel.uri); the merge
\* model of a Temp-File session is built over the scratch document
\* (temporaryResultModel), so this is the scratch document's uri.
DiscardRevertTarget == "scratch"

\* A revert of the real result document returns it to its persisted content;
\* a revert of the scratch uri leaves the real result document as it is.
ResultAfterRevert(target, s) == IF target = "result" THEN diskValue[s] ELSE resultValue[s]

\* textFileService.revert(this.model.resultTextModel.uri) settles: on success
\* _discard() records the save point and marks the session finished.
DiscardReverted(o, ok) ==
    /\ op[o].kind = "discard" /\ op[o].pc = "d_revert"
    /\ resultValue' =
         IF ok THEN [resultValue EXCEPT ![o[2]] = ResultAfterRevert(DiscardRevertTarget, o[2])]
         ELSE resultValue
    /\ savedAltVersionId' =
         IF ok THEN [savedAltVersionId EXCEPT ![o[2]] = DiscardSavedAltVersionId(o[2])]
         ELSE savedAltVersionId
    /\ savePoint' = IF ok THEN [savePoint EXCEPT ![o[2]] = altVer[o[2]]] ELSE savePoint
    /\ finished' = IF ok THEN [finished EXCEPT ![o[2]] = TRUE] ELSE finished
    /\ op' = [op EXCEPT ![o].pc = IF ok THEN "ok" ELSE "fail"]
    /\ UNCHANGED <<docVars, altVersionId, diskValue, cc, sv, sv2, svRet, calls, last>>
    /\ UNCHANGED <<factVars, inputVars, notifyVars, wsVars>>

\* MergeEditorInput.accept(): await this._inputModel?.accept()
AcceptCall(s) ==
    /\ CanStart
    /\ Settled(<<"dir", s>>)
    /\ op' = [op EXCEPT ![<<"dir", s>>] = StartedAccept(s)]
    /\ calls' = calls + 1
    /\ last' = [api |-> "accept", s |-> s, noop |-> FALSE]
    /\ UNCHANGED <<docVars, sessVars, histVars, cc, sv, sv2, svRet>>
    /\ UNCHANGED <<factVars, inputVars, notifyVars, wsVars>>

(* --------------------------- confirmClose ----------------------------- *)

\* the dialog's answers: actions[0] Save, actions[1] Don't Save, cancelId 2
ChoiceOfSave == 0
ChoiceOfCancel == 2

NoDirtyChoiceSave == ChoiceOfSave

\* confirmClose: `choice = 1` when no session of the set is dirty
NoDirtyChoice == 1

ChoiceBranchNoCancel(choice) == IF choice = ChoiceOfSave THEN "accept" ELSE "discard"

\* confirmClose: if (choice === 2) ... else if (choice === 0) ... else ...
ChoiceBranch(choice) ==
    IF choice = ChoiceOfCancel THEN "cancel"
    ELSE IF choice = ChoiceOfSave THEN "accept" ELSE "discard"

CloseTargetsDirtyOnly(set) == {m \in set : isDirty(m)}

CloseTargetsFirstOnly(set) == IF set = {} THEN {} ELSE {CHOOSE m \in set : TRUE}

\* confirmClose: inputModels.map(m => m.accept()) / inputModels.map(m => m._discard())
CloseTargets(set) == set

\* The branch confirmClose takes once it has a choice, up to its await of
\* Promise.all (accept and _discard each run to their first await).
Dispatch(rec, choice) ==
    LET branch == ChoiceBranch(choice)
        targets == CloseTargets(rec.set)
    IN  IF branch = "cancel"
        THEN /\ cc' = [rec EXCEPT !.choice = choice, !.pc = "done", !.result = "cancel"]
             /\ op' = op
        ELSE /\ cc' = [rec EXCEPT !.choice = choice, !.pc = "waiting"]
             /\ op' = [o \in OpIds |->
                          IF o[1] = "cc" /\ o[2] \in targets
                          THEN IF branch = "accept" THEN StartedAccept(o[2])
                               ELSE StartedDiscard(o[2])
                          ELSE IF o[1] = "cc" THEN IdleOp ELSE op[o]]

\* confirmClose(inputModels) up to its first await: the dialog when some session
\* is dirty, else the branch of the default choice.
ConfirmCloseCall(self, set) ==
    /\ CanStart
    /\ cc.pc \in {"idle", "done", "failed"}
    /\ \A s \in Sessions : Settled(<<"cc", s>>)
    /\ self \in set
    /\ LET dirty == {m \in set : isDirty(m)}
           rec == [pc |-> "dialog", set |-> set, dirtyAtCall |-> dirty,
                   choice |-> -1, result |-> "none"]
       IN  IF dirty # {}
           THEN /\ cc' = rec
                /\ op' = [o \in OpIds |-> IF o[1] = "cc" THEN IdleOp ELSE op[o]]
           ELSE Dispatch(rec, NoDirtyChoice)
    /\ calls' = calls + 1
    /\ last' = [api |-> "confirmClose", s |-> 0, noop |-> FALSE]
    /\ UNCHANGED <<docVars, sessVars, histVars, sv, sv2, svRet>>
    /\ UNCHANGED <<factVars, inputVars, notifyVars, wsVars>>

\* The user answers the dialog: 0 Save (With Conflicts), 1 Don't Save, 2 Cancel.
ConfirmCloseAnswer(choice) ==
    /\ cc.pc = "dialog"
    /\ Dispatch(cc, choice)
    /\ UNCHANGED <<docVars, sessVars, histVars, sv, sv2, svRet, calls, last>>
    /\ UNCHANGED <<factVars, inputVars, notifyVars, wsVars>>

\* Promise.all settles: fulfilled when every accept/_discard has returned,
\* rejected as soon as one has failed.
ConfirmCloseSettle ==
    /\ cc.pc = "waiting"
    /\ LET targets == {m \in Sessions : op[<<"cc", m>>].pc # "idle"}
       IN  \/ /\ \E m \in targets : op[<<"cc", m>>].pc = "fail"
              /\ cc' = [cc EXCEPT !.pc = "failed", !.result = "error"]
           \/ /\ \A m \in targets : op[<<"cc", m>>].pc = "ok"
              /\ cc' = [cc EXCEPT !.pc = "done",
                                  !.result = IF ChoiceBranch(cc.choice) = "accept"
                                             THEN "save" ELSE "dont_save"]
    /\ UNCHANGED <<docVars, sessVars, histVars, op, sv, sv2, svRet, calls, last>>
    /\ UNCHANGED <<factVars, inputVars, notifyVars, wsVars>>

(* ----------------------- save() and revert() -------------------------- *)

SaveNeverReturnsEarly(fin) == FALSE

\* save(): if (this.finished) { return; }
SaveReturnsEarly(fin) == fin

SaveAwaitsItsBlock == TRUE

\* save(): (async () => { ... })(); the async block is called and not awaited
SaveAwaitsBlock == FALSE

\* save(): a no-op once finished; else it starts the async block, which shows
\* the accept-merge dialog, and returns. This is a call made while no block
\* of the session is running.
SaveCall(s) ==
    /\ CanStart
    /\ calls' = calls + 1
    /\ IF SaveReturnsEarly(finished[s])
       THEN /\ last' = [api |-> "save", s |-> s, noop |-> TRUE]
            /\ UNCHANGED <<sv, svRet>>
       ELSE /\ sv[s] \notin {"dialog", "accepting"}
            /\ sv2[s] \notin {"dialog", "accepting"}
            /\ Settled(<<"sv", s>>)
            /\ sv' = [sv EXCEPT ![s] = "dialog"]
            /\ svRet' = [svRet EXCEPT ![s] = ~SaveAwaitsBlock]
            /\ last' = [api |-> "save", s |-> s, noop |-> FALSE]
    /\ UNCHANGED <<docVars, sessVars, histVars, op, cc, sv2>>
    /\ UNCHANGED <<factVars, inputVars, notifyVars, wsVars>>

\* save(): if (choice === 0) { await this.accept(); ... }
SaveChoiceAccepts(choice) == choice = ChoiceOfSave

\* The user answers save()'s dialog: 0 Accept Merge, 1 Cancel.
SaveAnswer(s, choice) ==
    /\ sv[s] = "dialog"
    /\ IF SaveChoiceAccepts(choice)
       THEN /\ sv' = [sv EXCEPT ![s] = "accepting"]
            /\ op' = [op EXCEPT ![<<"sv", s>>] = StartedAccept(s)]
            /\ svRet' = svRet
       ELSE /\ sv' = [sv EXCEPT ![s] = "cancelled"]
            /\ svRet' = [svRet EXCEPT ![s] = TRUE]
            /\ op' = op
    /\ UNCHANGED <<docVars, sessVars, histVars, cc, sv2, calls, last>>
    /\ UNCHANGED <<factVars, inputVars, notifyVars, wsVars>>

SaveBlockClosesAnyway(pc) == "closing"

\* save(): await this.accept(); ...; await this.editorService.closeEditors(editors)
\* (a rejected accept() ends the block before the close request)
SaveBlockEnd(pc) == IF pc = "ok" THEN "closing" ELSE "failed"

\* save()'s async block after `await this.accept()`: it asks the editor service
\* to close the merge editors of resultUri, or ends with accept's error.
SaveAfterAccept(s) ==
    /\ sv[s] = "accepting"
    /\ op[<<"sv", s>>].pc \in {"ok", "fail"}
    /\ sv' = [sv EXCEPT ![s] = SaveBlockEnd(op[<<"sv", s>>].pc)]
    /\ svRet' = [svRet EXCEPT ![s] = TRUE]
    /\ UNCHANGED <<docVars, sessVars, histVars, op, cc, sv2, calls, last>>
    /\ UNCHANGED <<factVars, inputVars, notifyVars, wsVars>>

\* save() called again while the block of an earlier call shows its dialog or
\* runs its accept(): the session is not finished yet, so this call starts a
\* block of its own, which shows the dialog, and returns.
SaveCallAgain(s) ==
    /\ CanStart
    /\ sv[s] \in {"dialog", "accepting"}
    /\ ~SaveReturnsEarly(finished[s])
    /\ sv2[s] \notin {"dialog", "accepting"}
    /\ Settled(<<"sv2", s>>)
    /\ sv2' = [sv2 EXCEPT ![s] = "dialog"]
    /\ calls' = calls + 1
    /\ last' = [api |-> "save", s |-> s, noop |-> FALSE]
    /\ UNCHANGED <<docVars, sessVars, histVars, op, cc, sv, svRet>>
    /\ UNCHANGED <<factVars, inputVars, notifyVars, wsVars>>

\* The user answers the dialog of the second block.
SaveAnswerAgain(s, choice) ==
    /\ sv2[s] = "dialog"
    /\ IF SaveChoiceAccepts(choice)
       THEN /\ sv2' = [sv2 EXCEPT ![s] = "accepting"]
            /\ op' = [op EXCEPT ![<<"sv2", s>>] = StartedAccept(s)]
       ELSE /\ sv2' = [sv2 EXCEPT ![s] = "cancelled"]
            /\ op' = op
    /\ UNCHANGED <<docVars, sessVars, histVars, cc, sv, svRet, calls, last>>
    /\ UNCHANGED <<factVars, inputVars, notifyVars, wsVars>>

\* The second block after `await this.accept()`.
SaveAfterAcceptAgain(s) ==
    /\ sv2[s] = "accepting"
    /\ op[<<"sv2", s>>].pc \in {"ok", "fail"}
    /\ sv2' = [sv2 EXCEPT ![s] = SaveBlockEnd(op[<<"sv2", s>>].pc)]
    /\ UNCHANGED <<docVars, sessVars, histVars, op, cc, sv, svRet, calls, last>>
    /\ UNCHANGED <<factVars, inputVars, notifyVars, wsVars>>

\* revert(): no op
RevertCall(s) ==
    /\ CanStart
    /\ calls' = calls + 1
    /\ last' = [api |-> "revert", s |-> s, noop |-> TRUE]
    /\ UNCHANGED <<docVars, sessVars, histVars, op, cc, sv, sv2, svRet>>
    /\ UNCHANGED <<factVars, inputVars, notifyVars, wsVars>>

(* ------------------ the factories' createInputModel ------------------- *)

Docs == {"base", "result", "input1", "input2"}
InputDocs == {"input1", "input2"}
\* everything a createInputModel call acquires or creates
Resources == Docs \cup {"scratch", "model", "modelListener"}

InitFactory ==
    /\ fpc = "idle"
    /\ variant = "none"
    /\ res = [d \in Docs |-> "none"]
    /\ held = {}
    /\ store = {}
    /\ storeDisposed = FALSE
    /\ listening = FALSE
    /\ resultTextFileModel = 0
    /\ registered = 0
    /\ created = 0
    /\ ferror = "none"
    /\ released = [x \in Resources |-> 0]
    /\ disposeCalls = 0

ScanSkipped(reg) == 0

\* this.textFileService.files.models.forEach(handleDidCreate): the record of
\* args.result that the registry holds (0: none) is handed to handleDidCreate
ScannedRecord(reg) == reg

\* createInputModel up to `await Promise.all([...])`. The Workspace factory
\* first subscribes handleDidCreate to files.onDidCreate and runs it over
\* files.models: a record of args.result is captured and the listener cleared.
CreateInputModelCall(v) ==
    /\ fpc = "idle"
    /\ variant' = v
    /\ store' = IF v = "workspace" THEN {"modelListener"} ELSE {}
    /\ listening' = (v = "workspace" /\ ScannedRecord(registered) = 0)
    /\ resultTextFileModel' = IF v = "workspace" THEN ScannedRecord(registered) ELSE 0
    /\ res' = [d \in Docs |-> "pending"]
    /\ fpc' = "resolving"
    /\ UNCHANGED <<held, storeDisposed, registered, created, ferror, released, disposeCalls>>
    /\ UNCHANGED <<sessionVars, inputVars, notifyVars, wsVars>>

\* toInputData: const ref = await createModelReference(data.uri); store.add(ref)
StoreAfterResolve(d) == IF d \in InputDocs THEN store \cup {d} ELSE store

\* One createModelReference settles. The references of input1 and input2 go
\* into the store at once (toInputData); those of base and result are only
\* handed to Promise.all.
ResolveDocument(d, ok) ==
    /\ res[d] = "pending"
    /\ res' = [res EXCEPT ![d] = IF ok THEN "resolved" ELSE "failed"]
    /\ held' = IF ok THEN held \cup {d} ELSE held
    /\ store' = IF ok THEN StoreAfterResolve(d) ELSE store
    /\ UNCHANGED <<fpc, variant, storeDisposed, listening, resultTextFileModel,
                   registered, created, ferror, released, disposeCalls>>
    /\ UNCHANGED <<sessionVars, inputVars, notifyVars, wsVars>>

\* Promise.all rejects with the first failure: createInputModel throws, and
\* nothing it holds is disposed.
AwaitAllRejected ==
    /\ fpc = "resolving"
    /\ \E d \in Docs : res[d] = "failed"
    /\ fpc' = "rejected"
    /\ ferror' = "resolution"
    /\ UNCHANGED <<variant, res, held, store, storeDisposed, listening,
                   resultTextFileModel, registered, created, released, disposeCalls>>
    /\ UNCHANGED <<sessionVars, inputVars, notifyVars, wsVars>>

\* what the factory creates after Promise.all: the scratch document
\* (temporaryResultModel, Temp-File only) and the MergeEditorModel
Made(v) == IF v = "temp" THEN {"scratch", "model"} ELSE {"model"}

AddedWithoutResult(v) == {"base"} \cup Made(v)

\* store.add(base); store.add(result); store.add(temporaryResultModel); store.add(model)
AddedAfterAll(v) == {"base", "result"} \cup Made(v)

WorkspaceAlwaysReturns(rtfm) == "returned"

\* if (!resultTextFileModel) { throw new BugIndicatingError(); } return ...
WorkspaceOutcome(rtfm) == IF rtfm = 0 THEN "rejected" ELSE "returned"

\* Promise.all is fulfilled: base and result go into the store, then the
\* scratch document (Temp-File) and the merge model. The Temp-File factory
\* awaits model.onInitialized; the Workspace factory throws
\* BugIndicatingError when no record was captured, else returns.
AwaitAllFulfilled ==
    /\ fpc = "resolving"
    /\ \A d \in Docs : res[d] = "resolved"
    /\ store' = store \cup AddedAfterAll(variant)
    /\ held' = held \cup Made(variant)
    /\ fpc' = IF variant = "temp" THEN "initializing"
              ELSE WorkspaceOutcome(resultTextFileModel)
    /\ ferror' = IF variant = "workspace" /\ WorkspaceOutcome(resultTextFileModel) = "rejected"
                 THEN "invariant" ELSE ferror
    /\ UNCHANGED <<variant, res, storeDisposed, listening, resultTextFileModel,
                   registered, created, released, disposeCalls>>
    /\ UNCHANGED <<sessionVars, inputVars, notifyVars, wsVars>>

\* await model.onInitialized; return createInstance(TempFileMergeEditorInputModel, ...)
ModelInitialized ==
    /\ fpc = "initializing"
    /\ fpc' = "returned"
    /\ UNCHANGED <<variant, res, held, store, storeDisposed, listening,
                   resultTextFileModel, registered, created, ferror, released, disposeCalls>>
    /\ UNCHANGED <<sessionVars, inputVars, notifyVars, wsVars>>

\* DisposableStore.dispose(): disposes everything the store holds, and does
\* nothing when the store is already disposed.
StoreDisposes(disposed, s) == IF disposed THEN {} ELSE s

\* The input model's dispose(): this.disposable.dispose() releases what the
\* store holds (disposing modelListener ends the files.onDidCreate
\* subscription).
DisposeSession ==
    /\ fpc = "returned"
    /\ disposeCalls < MaxDisposes
    /\ disposeCalls' = disposeCalls + 1
    /\ storeDisposed' = TRUE
    /\ LET gone == StoreDisposes(storeDisposed, store)
       IN  /\ held' = held \ gone
           /\ released' = [x \in Resources |-> IF x \in gone THEN released[x] + 1 ELSE released[x]]
           /\ listening' = IF "modelListener" \in gone THEN FALSE ELSE listening
    /\ UNCHANGED <<fpc, variant, res, store, resultTextFileModel, registered, created, ferror>>
    /\ UNCHANGED <<sessionVars, inputVars, notifyVars, wsVars>>

\* The text file service creates a record for args.result and fires
\* files.onDidCreate: handleDidCreate, while subscribed, clears the listener
\* and captures the record.
TrackResult ==
    /\ created < MaxRecords
    /\ created' = created + 1
    /\ registered' = created + 1
    /\ listening' = FALSE
    /\ resultTextFileModel' = IF listening THEN created + 1 ELSE resultTextFileModel
    /\ UNCHANGED <<fpc, variant, res, held, store, storeDisposed, ferror, released, disposeCalls>>
    /\ UNCHANGED <<sessionVars, inputVars, notifyVars, wsVars>>

(* ---------------------- MergeEditorInput.resolve ---------------------- *)

Resolvers == 1..MaxResolvers

InitInput ==
    /\ inputModel = 0
    /\ rpc = [r \in Resolvers |-> "idle"]
    /\ mine = [r \in Resolvers |-> 0]
    /\ ret = [r \in Resolvers |-> 0]
    /\ nCreated = 0
    /\ ownedModels = {}

\* resolve(): if (!this._inputModel) it calls mergeEditorModeFactory.createInputModel
\* and awaits it; else it returns the cached model.
ResolveCall(r) ==
    /\ rpc[r] = "idle"
    /\ IF inputModel = 0
       THEN /\ nCreated' = nCreated + 1
            /\ mine' = [mine EXCEPT ![r] = nCreated + 1]
            /\ rpc' = [rpc EXCEPT ![r] = "creating"]
            /\ ret' = ret
       ELSE /\ ret' = [ret EXCEPT ![r] = inputModel]
            /\ rpc' = [rpc EXCEPT ![r] = "done"]
            /\ UNCHANGED <<nCreated, mine>>
    /\ UNCHANGED <<inputModel, ownedModels, notifyVars>>
    /\ UNCHANGED <<sessionVars, factVars, wsVars>>

AutorunFiresAlways(first) == TRUE

\* autorun 'fire dirty event': if (first) { first = false; } else { this._onDidChangeDirty.fire(); }
AutorunFires(first) == ~first

\* notifications fired so far, after one more run of the autorun
EmittedAfterRun(first) == IF AutorunFires(first) THEN emitted + 1 ELSE emitted

\* createInputModel settles: the new model is registered with the input and
\* stored in this._inputModel, the dirty autorun is set up and runs for the
\* first time, and resolve() awaits model.onInitialized; a failure rejects
\* resolve().
ResolveCreated(r, ok) ==
    /\ rpc[r] = "creating"
    /\ IF ok
       THEN /\ ownedModels' = ownedModels \cup {mine[r]}
            /\ inputModel' = mine[r]
            /\ emitted' = EmittedAfterRun(TRUE)
            /\ rpc' = [rpc EXCEPT ![r] = "initWait"]
       ELSE /\ rpc' = [rpc EXCEPT ![r] = "failed"]
            /\ UNCHANGED <<ownedModels, inputModel, emitted>>
    /\ UNCHANGED <<mine, ret, nCreated, mdirty, signals>>
    /\ UNCHANGED <<sessionVars, factVars, wsVars>>

\* return this._inputModel
ResolveReturn(r) ==
    /\ rpc[r] = "initWait"
    /\ ret' = [ret EXCEPT ![r] = inputModel]
    /\ rpc' = [rpc EXCEPT ![r] = "done"]
    /\ UNCHANGED <<inputModel, mine, nCreated, ownedModels, notifyVars>>
    /\ UNCHANGED <<sessionVars, factVars, wsVars>>

(* ------------------- MergeEditorInput dirty event --------------------- *)

InitNotify ==
    /\ mdirty = [m \in Resolvers |-> FALSE]
    /\ emitted = 0
    /\ signals = 0

\* derived('isDirty', ...): observers of a derived observable are told of a
\* recomputation only when it changed the value.
DerivedNotifies(old, new) == old # new

\* A version marker under the isDirty observable of input model m changes (the
\* scratch document is edited or undone by an editor that resolve() gave the
\* model to, or a save point is recorded), and isDirty is recomputed to the
\* other or to the same value; when told, the autorun that reads
\* inputModel.isDirty runs again.
ModelDirtyChange(m, flips) ==
    /\ m \in ownedModels
    /\ \E r \in Resolvers : rpc[r] = "done" /\ ret[r] = m
    /\ signals < MaxSignals
    /\ signals' = signals + 1
    /\ mdirty' = [mdirty EXCEPT ![m] = IF flips THEN ~@ ELSE @]
    /\ emitted' = IF DerivedNotifies(mdirty[m], mdirty'[m]) THEN EmittedAfterRun(FALSE) ELSE emitted
    /\ UNCHANGED <<inputModel, rpc, mine, ret, nCreated, ownedModels>>
    /\ UNCHANGED <<sessionVars, factVars, wsVars>>

\* MergeEditorInput.isDirty(): this._inputModel?.isDirty.get() ?? false
InputIsDirty == IF inputModel = 0 THEN FALSE ELSE mdirty[inputModel]

(* ---------------- WorkspaceMergeEditorInputModel ---------------------- *)

WsApis == {"accept", "save", "revert"}
NoWsCall == [api |-> "none", confirm |-> FALSE, result |-> "none"]

InitWorkspace(dirty) ==
    /\ wsFileDirty = dirty
    /\ wsIsDirty = dirty
    /\ wsPc = [a \in WsApis |-> "idle"]
    /\ wsLast = NoWsCall
    /\ wsEvents = 0

\* The signals of the tracked file record: a change of its dirty state fires
\* onDidChangeDirty, a failed save fires onDidSaveError.
FileEvents(old, new, saveFailed) ==
    (IF old # new THEN {"changeDirty"} ELSE {}) \cup (IF saveFailed THEN {"saveError"} ELSE {})

ObservedSaveErrorOnly == {"saveError"}

\* Event.any(this.resultTextFileModel.onDidChangeDirty, this.resultTextFileModel.onDidSaveError)
ObservedEvents == {"changeDirty", "saveError"}

\* observableFromEvent: on an observed event the observable takes the getter's
\* value, () => this.resultTextFileModel.isDirty(); else it keeps its value.
ObservedDirty(events, new) == IF events \cap ObservedEvents # {} THEN new ELSE wsIsDirty

WsCanStart == wsEvents < MaxWsEvents
WsSettled(a) == wsPc[a] \in {"idle", "ok", "fail"}

\* The user edits the result file: its record is dirty.
WsEdit ==
    /\ WsCanStart
    /\ wsEvents' = wsEvents + 1
    /\ wsFileDirty' = TRUE
    /\ wsIsDirty' = ObservedDirty(FileEvents(wsFileDirty, TRUE, FALSE), TRUE)
    /\ UNCHANGED <<wsPc, wsLast>>
    /\ UNCHANGED <<sessionVars, factVars, inputVars, notifyVars>>

\* accept() / save(): await this.resultTextFileModel.save()
WsSaveCall(api) ==
    /\ WsCanStart
    /\ WsSettled(api)
    /\ wsEvents' = wsEvents + 1
    /\ wsPc' = [wsPc EXCEPT ![api] = "pending"]
    /\ UNCHANGED <<wsFileDirty, wsIsDirty, wsLast>>
    /\ UNCHANGED <<sessionVars, factVars, inputVars, notifyVars>>

\* The record's save settles: saved, the record is not dirty; failed, it stays
\* as it is and signals the save error.
WsSaveSettle(api, ok) ==
    /\ api # "revert" /\ wsPc[api] = "pending"
    /\ wsPc' = [wsPc EXCEPT ![api] = IF ok THEN "ok" ELSE "fail"]
    /\ wsFileDirty' = IF ok THEN FALSE ELSE wsFileDirty
    /\ wsIsDirty' = ObservedDirty(FileEvents(wsFileDirty, wsFileDirty', ~ok), wsFileDirty')
    /\ UNCHANGED <<wsLast, wsEvents>>
    /\ UNCHANGED <<sessionVars, factVars, inputVars, notifyVars>>

\* revert(): await this.resultTextFileModel.revert()
WsRevertCall ==
    /\ WsCanStart
    /\ WsSettled("revert")
    /\ wsEvents' = wsEvents + 1
    /\ wsPc' = [wsPc EXCEPT !["revert"] = "pending"]
    /\ UNCHANGED <<wsFileDirty, wsIsDirty, wsLast>>
    /\ UNCHANGED <<sessionVars, factVars, inputVars, notifyVars>>

\* The record's revert settles: reverted, the record is not dirty; failed, it
\* stays as it is.
WsRevertSettle(ok) ==
    /\ wsPc["revert"] = "pending"
    /\ wsPc' = [wsPc EXCEPT !["revert"] = IF ok THEN "ok" ELSE "fail"]
    /\ wsFileDirty' = IF ok THEN FALSE ELSE wsFileDirty
    /\ wsIsDirty' = ObservedDirty(FileEvents(wsFileDirty, wsFileDirty', FALSE), wsFileDirty')
    /\ UNCHANGED <<wsLast, wsEvents>>
    /\ UNCHANGED <<sessionVars, factVars, inputVars, notifyVars>>

WsShouldConfirmCloseIfDirty(dirty) == dirty

\* shouldConfirmClose(): return false
WsShouldConfirmClose(dirty) == FALSE

\* confirmClose(inputModels): return ConfirmResult.SAVE
WsConfirmCloseResult == "save"

WsShouldConfirmCloseCall ==
    /\ WsCanStart
    /\ wsEvents' = wsEvents + 1
    /\ wsLast' = [api |-> "shouldConfirmClose", confirm |-> WsShouldConfirmClose(wsFileDirty),
                  result |-> "none"]
    /\ UNCHANGED <<wsFileDirty, wsIsDirty, wsPc>>
    /\ UNCHANGED <<sessionVars, factVars, inputVars, notifyVars>>

WsConfirmCloseCall ==
    /\ WsCanStart
    /\ wsEvents' = wsEvents + 1
    /\ wsLast' = [api |-> "confirmClose", confirm |-> FALSE, result |-> WsConfirmCloseResult]
    /\ UNCHANGED <<wsFileDirty, wsIsDirty, wsPc>>
    /\ UNCHANGED <<sessionVars, factVars, inputVars, notifyVars>>

(* --------------------------- specifications --------------------------- *)

Init == InitSessions /\ InitFactory /\ InitInput /\ InitNotify /\ InitWorkspace(FALSE)

\* Temp-File sessions under every call of their API.
Next ==
    \/ \E s \in Sessions : Edit(s)
    \/ \E s \in Sessions : Undo(s)
    \/ \E s \in Sessions : AcceptCall(s)
    \/ \E o \in OpIds : AcceptDeliver(o)
    \/ \E o \in OpIds, ok \in BOOLEAN : AcceptPersisted(o, ok)
    \/ \E o \in OpIds, ok \in BOOLEAN : DiscardReverted(o, ok)
    \/ \E set \in SUBSET Sessions : \E self \in set : ConfirmCloseCall(self, set)
    \/ \E choice \in 0..2 : ConfirmCloseAnswer(choice)
    \/ ConfirmCloseSettle
    \/ \E s \in Sessions : SaveCall(s)
    \/ \E s \in Sessions, choice \in 0..1 : SaveAnswer(s, choice)
    \/ \E s \in Sessions : SaveAfterAccept(s)
    \/ \E s \in Sessions : RevertCall(s)

Spec == Init /\ [][Next]_vars

\* Temp-File sessions that are edited and closed together.
NextClose ==
    \/ \E s \in Sessions : Edit(s)
    \/ \E s \in Sessions : Undo(s)
    \/ \E o \in OpIds : AcceptDeliver(o)
    \/ \E o \in OpIds, ok \in BOOLEAN : AcceptPersisted(o, ok)
    \/ \E o \in OpIds, ok \in BOOLEAN : DiscardReverted(o, ok)
    \/ \E set \in SUBSET Sessions : \E self \in set : ConfirmCloseCall(self, set)
    \/ \E choice \in 0..2 : ConfirmCloseAnswer(choice)
    \/ ConfirmCloseSettle

SpecClose == Init /\ [][NextClose]_vars

\* Temp-File sessions that are edited, accepted and saved.
NextSave ==
    \/ \E s \in Sessions : Edit(s)
    \/ \E s \in Sessions : Undo(s)
    \/ \E s \in Sessions : AcceptCall(s)
    \/ \E o \in OpIds : AcceptDeliver(o)
    \/ \E o \in OpIds, ok \in BOOLEAN : AcceptPersisted(o, ok)
    \/ \E s \in Sessions : SaveCall(s)
    \/ \E s \in Sessions, choice \in 0..1 : SaveAnswer(s, choice)
    \/ \E s \in Sessions : SaveAfterAccept(s)

SpecSave == Init /\ [][NextSave]_vars

\* Temp-File sessions whose save() is called again while an earlier call's
\* block is running.
NextSaveAgain ==
    \/ \E s \in Sessions : Edit(s)
    \/ \E s \in Sessions : Undo(s)
    \/ \E o \in OpIds : AcceptDeliver(o)
    \/ \E o \in OpIds, ok \in BOOLEAN : AcceptPersisted(o, ok)
    \/ \E s \in Sessions : SaveCall(s)
    \/ \E s \in Sessions, choice \in 0..1 : SaveAnswer(s, choice)
    \/ \E s \in Sessions : SaveAfterAccept(s)
    \/ \E s \in Sessions : SaveCallAgain(s)
    \/ \E s \in Sessions, choice \in 0..1 : SaveAnswerAgain(s, choice)
    \/ \E s \in Sessions : SaveAfterAcceptAgain(s)

SpecSaveAgain == Init /\ [][NextSaveAgain]_vars

\* One createInputModel call of either factory, and the session's disposal.
NextFactory ==
    \/ \E v \in {"temp", "workspace"} : CreateInputModelCall(v)
    \/ \E d \in Docs, ok \in BOOLEAN : ResolveDocument(d, ok)
    \/ AwaitAllRejected
    \/ AwaitAllFulfilled
    \/ ModelInitialized
    \/ DisposeSession
    \/ TrackResult

SpecFactory == Init /\ [][NextFactory]_vars

\* resolve() calls on one MergeEditorInput.
NextResolve ==
    \/ \E r \in Resolvers : ResolveCall(r)
    \/ \E r \in Resolvers, ok \in BOOLEAN : ResolveCreated(r, ok)
    \/ \E r \in Resolvers : ResolveReturn(r)

SpecResolve == Init /\ [][NextResolve]_vars

\* resolve() calls on one MergeEditorInput whose input models change their
\* dirty flag.
NextNotify ==
    \/ \E r \in Resolvers : ResolveCall(r)
    \/ \E r \in Resolvers, ok \in BOOLEAN : ResolveCreated(r, ok)
    \/ \E r \in Resolvers : ResolveReturn(r)
    \/ \E m \in Resolvers, flips \in BOOLEAN : ModelDirtyChange(m, flips)

SpecNotify == Init /\ [][NextNotify]_vars

\* One Workspace session over a result file that is clean or dirty when the
\* session is constructed.
InitWs ==
    /\ InitSessions /\ InitFactory /\ InitInput /\ InitNotify
    /\ \E dirty \in BOOLEAN : InitWorkspace(dirty)

NextWorkspace ==
    \/ WsEdit
    \/ \E api \in {"accept", "save"} : WsSaveCall(api)
    \/ \E api \in {"accept", "save"}, ok \in BOOLEAN : WsSaveSettle(api, ok)
    \/ WsRevertCall
    \/ \E ok \in BOOLEAN : WsRevertSettle(ok)
    \/ WsShouldConfirmCloseCall
    \/ WsConfirmCloseCall

SpecWorkspace == InitWs /\ [][NextWorkspace]_vars

(* ------------------------------ claims -------------------------------- *)

AcceptOps == {o \in OpIds : op[o].kind = "accept"}
CcOp(m) == op[<<"cc", m>>]
CcStarted == cc.pc \in {"waiting", "done", "failed"}
DialogShown == cc.dirtyAtCall # {}

\* C1: in every reachable state a Temp-File session's isDirty is true exactly
\* when the scratch document's current version marker differs from the save
\* point, the marker read at construction or by the last accept()/discard.
C1_DirtyIffMarkerDiffers ==
    \A s \in Sessions : isDirty(s) <=> (altVer[s] # savePoint[s])

\* C1 witness: a session is dirty against a save point that an accept or a
\* discard recorded after an edit.
C1_Witness ==
    \E s \in Sessions : savePoint[s] > 0 /\ altVer[s] # savePoint[s] /\ isDirty(s)

C2_States ==
    /\ \A s \in Sessions : ~Mutated(s) => ~isDirty(s)
    /\ \A o \in AcceptOps : (op[o].pc = "ok" /\ ~op[o].edited) => ~isDirty(o[2])

\* C2: isDirty is false from construction until the scratch document is first
\* mutated, the first mutation makes it true, and it is false when accept() has
\* returned with no mutation made since accept() was called.
C2_DirtyLifecycle ==
    /\ C2_States
    /\ [][/\ \A s \in Sessions : (~Mutated(s) /\ Mutated(s)') => isDirty(s)'
          /\ C2_States']_vars

\* C2 witness: a session that was mutated and then accepted is not dirty.
C2_Witness ==
    \E o \in AcceptOps :
        op[o].pc = "ok" /\ ~op[o].edited /\ Mutated(o[2]) /\ ~isDirty(o[2])

\* C3 (as stated): confirmClose on a set with no dirty session shows no dialog
\* and resolves to "save".
C3_NoneDirtyResolvesSave ==
    (cc.pc # "idle" /\ ~DialogShown) =>
        /\ cc.pc # "dialog"
        /\ cc.pc = "done" => cc.result = "save"

\* C3 (amended): confirmClose on a set with no dirty session shows no dialog,
\* starts _discard() on every session of the set and, once they have all
\* succeeded, resolves to "don't save" with every session finished.
C3_NoneDirtyDiscards ==
    (cc.pc # "idle" /\ ~DialogShown) =>
        /\ cc.pc # "dialog"
        /\ \A m \in cc.set : CcOp(m).kind = "discard"
        /\ cc.pc = "done" =>
              /\ cc.result = "dont_save"
              /\ \A m \in cc.set : finished[m]

\* C3 witness: a confirmClose over several sessions, none dirty, has resolved.
C3_Witness ==
    cc.pc = "done" /\ ~DialogShown /\ Cardinality(cc.set) > 1

\* C6 (as stated): an accept() called on a finished session writes nothing to
\* the real result document, persists nothing and raises no error.
C6_AcceptAfterFinishIgnored ==
    \A o \in AcceptOps : op[o].wasFinished => op[o].pc \notin {"a_save", "fail"}

\* C6 (amended): an accept() called on a finished session is carried out like
\* any other: it writes the merge value into the real result document and
\* persists it, and the session stays finished.
C6_AcceptAfterFinishRedoes ==
    \A o \in AcceptOps :
        op[o].wasFinished =>
            /\ finished[o[2]]
            /\ (op[o].pc \in {"a_save", "ok", "fail"} /\ ~op[o].edited) =>
                  resultValue[o[2]] = MergeValue(o[2])

\* C6 witness: an accept() called on a finished session has returned, and the
\* real result document holds a merge value.
C6_Witness ==
    \E o \in AcceptOps :
        op[o].wasFinished /\ op[o].pc = "ok" /\ resultValue[o[2]].kind = "merge"

IsSaveCallOn(s) == calls' = calls + 1 /\ last'.api = "save" /\ last'.s = s
IsRevertCall == calls' = calls + 1 /\ last'.api = "revert"

\* C7: a save() call on a finished session changes nothing (no dialog, no
\* accept, no close request, no session state), and revert() never changes
\* anything.
C7_SaveAfterFinishNoOp ==
    [][/\ \A s \in Sessions :
            (finished[s] /\ IsSaveCallOn(s)) =>
                UNCHANGED <<docVars, sessVars, histVars, op, cc, sv>>
       /\ IsRevertCall => UNCHANGED <<docVars, sessVars, histVars, op, cc, sv>>]_vars

\* C7 witness: save() was called on a finished session.
C7_Witness ==
    last.api = "save" /\ last.noop /\ last.s \in Sessions /\ finished[last.s]

\* C8: when the user answers confirmClose's dialog with Cancel, confirmClose
\* returns "cancel", no accept or discard is started and no session changes.
C8_CancelLeavesSessions ==
    [][(cc.pc = "dialog" /\ cc'.choice = 2) =>
          /\ cc'.pc = "done" /\ cc'.result = "cancel"
          /\ UNCHANGED <<docVars, sessVars, histVars, op, sv>>]_vars

\* C8 witness: a confirmClose with a dirty session was cancelled.
C8_Witness ==
    cc.pc = "done" /\ cc.result = "cancel" /\ \E m \in cc.set : isDirty(m)

C9_States ==
    (DialogShown /\ cc.choice = 1 /\ CcStarted) =>
        /\ \A m \in cc.set : CcOp(m).kind = "discard"
        /\ cc.pc = "done" =>
              /\ cc.result = "dont_save"
              /\ \A m \in cc.set : CcOp(m).pc = "ok" /\ finished[m]

\* C9: after the answer Don't Save, _discard() has been started on every
\* session of the set, dirty or not; a session is not dirty when its discard
\* returns, and confirmClose returns once every discard has.
C9_DontSaveDiscardsAll ==
    /\ C9_States
    /\ [][/\ C9_States'
          /\ \A o \in OpIds :
                (op[o].pc = "d_revert" /\ op'[o].pc = "ok") => ~isDirty(o[2])']_vars

\* C9 witness: Don't Save on a set with a dirty and a clean session has
\* returned, and no session of the set is dirty.
C9_Witness ==
    /\ cc.pc = "done" /\ cc.choice = 1
    /\ DialogShown /\ cc.dirtyAtCall # cc.set
    /\ \A m \in cc.set : ~isDirty(m)

\* C10: after the answer Save, accept() has been started on every session of
\* the set, dirty or not, and when they have all succeeded confirmClose
\* returns "save" with every session of the set finished.
C10_SaveAcceptsAll ==
    (cc.choice = 0 /\ CcStarted) =>
        /\ \A m \in cc.set : CcOp(m).kind = "accept"
        /\ cc.pc = "done" =>
              /\ cc.result = "save"
              /\ \A m \in cc.set : CcOp(m).pc = "ok" /\ finished[m]

\* C10 witness: Save on a set with a session that was not dirty has returned.
C10_Witness ==
    cc.pc = "done" /\ cc.choice = 0 /\ cc.dirtyAtCall # cc.set

\* C4: when one of the four resolutions has failed and createInputModel has
\* been rejected, no reference that the other resolutions acquired is still
\* held.
C4_FailureReleasesHandles ==
    (fpc = "rejected" /\ ferror = "resolution" /\ \A d \in Docs : res[d] # "pending") =>
        held \cap Docs = {}

\* C5: createInputModel builds at most one input model for a MergeEditorInput,
\* and all resolve() calls return the same one.
C5_ResolveConstructsOnce ==
    /\ Cardinality(ownedModels) <= 1
    /\ \A r1, r2 \in Resolvers :
          (rpc[r1] = "done" /\ rpc[r2] = "done") => ret[r1] = ret[r2]

\* C11: once accept() has written, with no mutation of the scratch document
\* since accept() was called, the real result document holds exactly the value
\* the merge model computes from the scratch document, through the persist and
\* after accept() has completed.
C11_AcceptWritesMergeValue ==
    \A o \in AcceptOps :
        (op[o].pc \in {"a_save", "ok"} /\ ~op[o].edited) =>
            resultValue[o[2]] = MergeValue(o[2])

\* C11 witness: the scratch document was mutated, accept() has completed, and
\* the real result document holds the merge value of the mutated scratch.
C11_Witness ==
    \E o \in AcceptOps :
        /\ op[o].pc = "ok" /\ ~op[o].edited /\ Mutated(o[2])
        /\ altVer[o[2]] > 0
        /\ resultValue[o[2]] = [kind |-> "merge", ver |-> altVer[o[2]]]

\* C12: save() on an unfinished session shows the dialog and changes nothing
\* else; the close of the merge editors is requested only when the accept()
\* started by the affirmative answer has completed; on Cancel no accept is
\* started, nothing is written, save point and finished stay, and no close is
\* requested.
C12_SaveDialogThenAcceptThenClose ==
    [][\A s \in Sessions :
          /\ (~finished[s] /\ IsSaveCallOn(s)) =>
                /\ sv'[s] = "dialog"
                /\ UNCHANGED <<docVars, sessVars, histVars, op, cc>>
          /\ (sv[s] = "dialog" /\ sv'[s] = "accepting") =>
                /\ op'[<<"sv", s>>].kind = "accept" /\ op'[<<"sv", s>>].pc = "a_value"
          /\ (sv[s] # "closing" /\ sv'[s] = "closing") =>
                /\ sv[s] = "accepting"
                /\ op[<<"sv", s>>].kind = "accept" /\ op[<<"sv", s>>].pc = "ok"
                /\ finished[s]
          /\ (sv[s] = "dialog" /\ sv'[s] \notin {"dialog", "accepting"}) =>
                /\ sv'[s] = "cancelled"
                /\ UNCHANGED <<docVars, sessVars, histVars, op, cc>>
          /\ (sv[s] = "cancelled" /\ sv'[s] # "cancelled") => IsSaveCallOn(s)]_vars

\* C12 witness: one save() dialog was answered Accept Merge and has reached the
\* close request, another was cancelled.
C12_Witness ==
    \E s, t \in Sessions :
        /\ sv[s] = "closing" /\ finished[s] /\ resultValue[s].kind = "merge"
        /\ sv[t] = "cancelled" /\ ~finished[t] /\ resultValue[t] = OriginalValue

\* C19 (as stated): accept() records the save point only after the persist: the
\* step that writes the real result document and starts the persist leaves the
\* save point alone, and a failed persist leaves save point and dirty flag as
\* they were when that write was made.
C19_SavePointAfterPersist ==
    [][\A o \in OpIds :
          op[o].kind = "accept" =>
              /\ (op[o].pc = "a_value" /\ op'[o].pc = "a_save") =>
                    savedAltVersionId'[o[2]] = savedAltVersionId[o[2]]
              /\ (op[o].pc = "a_save" /\ op'[o].pc = "fail") =>
                    UNCHANGED <<savedAltVersionId, finished>>]_vars

\* C19 (amended): accept() writes the real result document and records the
\* save point in one step, then persists, then marks the session finished.
\* When the persist fails the document is already written and the save point
\* already moved (the session is not dirty unless the scratch document was
\* mutated meanwhile), and this call does not mark the session finished.
C19_SavePointBeforePersist ==
    [][\A o \in OpIds :
          op[o].kind = "accept" =>
              /\ (op[o].pc = "a_value" /\ op'[o].pc = "a_save") =>
                    /\ resultValue'[o[2]] = MergeValue(o[2])
                    /\ savedAltVersionId'[o[2]] = altVer[o[2]]
                    /\ finished'[o[2]] = finished[o[2]]
              /\ (op[o].pc = "a_save" /\ op'[o].pc = "ok") =>
                    /\ finished'[o[2]]
                    /\ UNCHANGED <<savedAltVersionId, resultValue>>
              /\ (op[o].pc = "a_save" /\ op'[o].pc = "fail") =>
                    /\ UNCHANGED <<savedAltVersionId, resultValue, finished>>
                    /\ ~op[o].edited => ~isDirty(o[2])']_vars

\* C19 witness: the persist of an accept() on a mutated, dirty session failed:
\* the session is not finished, yet its save point is the new marker and the
\* real result document holds the merge value.
C19_Witness ==
    \E o \in AcceptOps :
        /\ op[o].pc = "fail" /\ ~op[o].edited /\ Mutated(o[2])
        /\ ~finished[o[2]]
        /\ savedAltVersionId[o[2]] = altVer[o[2]] /\ altVer[o[2]] > 0
        /\ resultValue[o[2]].kind = "merge"

\* C20: a _discard() that returns has reverted the real result document to its
\* persisted content, set the save point to the scratch document's current
\* marker and marked the session finished.
C20_DiscardRevertsResult ==
    [][\A o \in OpIds :
          (op[o].kind = "discard" /\ op[o].pc = "d_revert" /\ op'[o].pc = "ok") =>
              /\ resultValue'[o[2]] = diskValue[o[2]]
              /\ savedAltVersionId'[o[2]] = altVer[o[2]]
              /\ finished'[o[2]]]_vars

\* C14: a Workspace createInputModel whose four resolutions completed with no
\* record of the result path captured (none tracked at the call, none
\* announced since) is rejected with the invariant-violation error at once: it
\* does not wait for a record and does not return an input model.
C14_NoRecordThrows ==
    variant = "workspace" =>
        /\ fpc \in {"resolving", "rejected", "returned"}
        /\ fpc = "returned" => resultTextFileModel # 0
        /\ (fpc # "resolving" /\ ferror # "resolution" /\ resultTextFileModel = 0) =>
              fpc = "rejected" /\ ferror = "invariant"

\* C14 witness: all four documents resolved, no record was ever created for
\* the result path, and the call was rejected with the invariant error.
C14_Witness ==
    /\ variant = "workspace" /\ created = 0 /\ resultTextFileModel = 0
    /\ \A d \in Docs : res[d] = "resolved"
    /\ fpc = "rejected" /\ ferror = "invariant"

\* what a returned session of variant v acquired
Acquired(v) == Docs \cup Made(v)

\* C17: once dispose() has run on a session, however often, every resource the
\* factory acquired for it (the four document references, the scratch document
\* in Temp-File mode, the merge model) has been released exactly once and none
\* is still held; before dispose() none has been released.
C17_DisposeReleasesOnce ==
    fpc = "returned" =>
        /\ disposeCalls = 0 => \A x \in Resources : released[x] = 0
        /\ disposeCalls > 0 =>
              /\ \A x \in Acquired(variant) : released[x] = 1
              /\ \A x \in Resources : released[x] <= 1
              /\ held \cap Acquired(variant) = {}

\* C17 witness: dispose() was called twice on a Temp-File session and the
\* scratch document was released once.
C17_Witness ==
    /\ variant = "temp" /\ fpc = "returned" /\ disposeCalls >= 2
    /\ released["scratch"] = 1 /\ released["result"] = 1 /\ held = {}

\* the dirty flag of s once save() has run from the current state with its
\* dialog confirmed: save() returns early on a finished session, else the
\* accept() it performs records the scratch document's marker as save point
DirtyAfterConfirmedSave(s) ==
    IF SaveReturnsEarly(finished[s]) THEN isDirty(s)
    ELSE IsDirty(altVersionId[s], AcceptSavedAltVersionId(s))

\* C15: whenever revert() is called on a session in a state from which a
\* confirmed save() leaves it not dirty, the session is not dirty after the
\* revert.
C15_RevertResetsDirtyLikeSave ==
    [][\A s \in Sessions :
          (IsRevertCall /\ last'.s = s /\ ~DirtyAfterConfirmedSave(s)) => ~isDirty(s)']_vars

\* C13: in every reachable state the isDirty observable of a Workspace session
\* holds the dirty state of the tracked file record, through edits, saves,
\* reverts and save errors.
C13_WorkspaceDirtyMirrorsFile ==
    wsIsDirty = wsFileDirty

\* C13 witness: the file was reverted and a save of it failed, and the file
\* and the session are dirty.
C13_Witness ==
    /\ wsPc["revert"] = "ok"
    /\ \E a \in {"accept", "save"} : wsPc[a] = "fail"
    /\ wsFileDirty /\ wsIsDirty

\* C16: the input fires no dirty-change notification when resolve() sets up
\* the autorun on a new input model (the initial evaluation of its dirty flag);
\* afterwards it fires exactly one at each step in which the dirty flag of an
\* input model changes its value, and none at a step that leaves the flags as
\* they are.
C16_NotifiesOncePerChange ==
    [][/\ ownedModels' # ownedModels => emitted' = emitted
       /\ mdirty' = mdirty => emitted' = emitted
       /\ mdirty' # mdirty => emitted' = emitted + 1]_vars

\* C16 witness: after resolve() the markers changed twice, once with the dirty
\* flag changing and once without, and one notification was fired.
C16_Witness ==
    /\ signals = 2 /\ emitted = 1
    /\ \E m \in ownedModels : mdirty[m]

\* C18: a shouldConfirmClose() of a Workspace session answers false and a
\* confirmClose() answers "save", in every state; neither shows a dialog,
\* starts a save or a revert of the tracked file, or changes its dirty state.
C18_WorkspaceNeverPrompts ==
    [][wsLast' # wsLast =>
          /\ wsLast'.api \in {"shouldConfirmClose", "confirmClose"}
          /\ ~wsLast'.confirm
          /\ wsLast'.api = "confirmClose" => wsLast'.result = "save"
          /\ UNCHANGED <<wsFileDirty, wsIsDirty, wsPc>>]_vars

\* C18 witness: confirmClose() has answered "save" on a session whose file is
\* still dirty.
C18_Witness ==
    wsLast.api = "confirmClose" /\ wsLast.result = "save" /\ wsFileDirty /\ wsIsDirty

\* the accept() of a save() block has written the real result document
BlockWrote(b, s) == op[<<b, s>>].kind = "accept" /\ op[<<b, s>>].pc \in {"a_save", "ok", "fail"}

\* C21: a save() call made while the block of an earlier call on the session
\* shows its dialog or runs its accept() shows no second dialog, and the two
\* calls together write the real result document at most once.
C21_DuplicateSaveOneDialogOneWrite ==
    \A s \in Sessions :
        /\ sv2[s] # "dialog"
        /\ ~(BlockWrote("sv", s) /\ BlockWrote("sv2", s))

\* C23 (as stated): the promise of save() has not completed while the dialog
\* of its block is unanswered or the accept() of its block is in progress.
C23_SaveBlockedByDialog ==
    \A s \in Sessions : sv[s] \in {"dialog", "accepting"} => ~svRet[s]

\* C23 (amended): the promise of save() has completed as soon as the block has
\* been started, so it is complete all the time the dialog is open, the
\* accept() runs, and after the block has ended.
C23_SaveReturnsAtOnce ==
    \A s \in Sessions : sv[s] # "idle" => svRet[s]

\* C23 witness: the promise of one save() has completed while its dialog is
\* unanswered, and that of another while its accept() has not yet written.
C23_Witness ==
    \E s, t \in Sessions :
        /\ sv[s] = "dialog" /\ svRet[s]
        /\ sv[t] = "accepting" /\ op[<<"sv", t>>].pc = "a_value" /\ svRet[t]


C22_States ==
    /\ (cc.pc \in {"waiting", "failed"}) =>
          \A m \in cc.set : CcOp(m).kind = ChoiceBranch(cc.choice)
    /\ cc.pc = "failed" =>
          /\ cc.result = "error"
          /\ \E m \in cc.set : CcOp(m).pc = "fail"
    /\ cc.pc = "done" => \A m \in cc.set : CcOp(m).pc # "fail"
    /\ CcStarted => \A m \in cc.set : CcOp(m).pc = "ok" => finished[m]

\* C22: in a confirmClose over several sessions answered Save or Don't Save,
\* the operation of every session of the set is started; when one of them
\* fails confirmClose fails (it never returns a result then), the failure
\* changes no session and stops no other operation, and every operation that
\* succeeds, before or after the failure, leaves its session finished and, if
\* the user did not edit the document meanwhile, not dirty.
C22_BatchFailureIsolated ==
    /\ C22_States
    /\ [][/\ C22_States'
          /\ (cc.pc = "waiting" /\ cc'.pc = "failed") =>
                UNCHANGED <<docVars, sessVars, histVars, op>>
          /\ \A m \in Sessions :
                (CcOp(m).pc \notin {"ok", "idle"} /\ CcOp(m)'.pc = "ok") =>
                    /\ finished'[m]
                    /\ ~CcOp(m)'.edited => ~isDirty(m)'
          /\ \A m \in Sessions :
                (CcOp(m).pc \notin {"idle", "ok", "fail"} /\ CcOp(m)'.pc = "fail") =>
                    \A n \in Sessions \ {m} :
                        /\ CcOp(n)' = CcOp(n)
                        /\ finished'[n] = finished[n]
                        /\ resultValue'[n] = resultValue[n]
                        /\ savedAltVersionId'[n] = savedAltVersionId[n]]_vars

\* C22 witness: after the answer Save on two sessions, one accept has failed,
\* confirmClose has failed, and the other accept has succeeded: its session is
\* finished and not dirty, the failed one is not finished.
C22_Witness ==
    /\ cc.pc = "failed" /\ cc.choice = 0 /\ DialogShown
    /\ \E m, n \in cc.set :
          /\ CcOp(m).pc = "fail" /\ ~finished[m]
          /\ CcOp(n).pc = "ok" /\ finished[n] /\ ~isDirty(n) /\ Mutated(n)


\* a Workspace createInputModel call has been made
WorkspaceCalled == variant = "workspace" /\ fpc # "idle"

C24_States ==
    WorkspaceCalled =>
        /\ created > 0 => resultTextFileModel # 0
        /\ ~(listening /\ resultTextFileModel # 0)
        /\ ~storeDisposed => (listening <=> resultTextFileModel = 0)
        /\ fpc = "returned" => resultTextFileModel # 0

\* C24: a Workspace createInputModel never misses the record of the result
\* path: a record that is in the registry at the call, or is announced while
\* the call waits for the four documents, is captured; the invariant error is
\* only raised when no record was ever created; the subscription is held
\* exactly until a record is captured; and a captured record is not replaced by
\* one announced later.
C24_RecordNeverMissed ==
    /\ C24_States
    /\ [][/\ C24_States'
          /\ (ferror # "invariant" /\ ferror' = "invariant") => created = 0
          /\ (WorkspaceCalled /\ resultTextFileModel # 0) =>
                resultTextFileModel' = resultTextFileModel]_vars

\* C24 witness: a Workspace call has returned with the first record captured
\* while a second record of the result path has been announced since.
C24_Witness ==
    /\ WorkspaceCalled /\ fpc = "returned"
    /\ created = 2 /\ registered = 2 /\ resultTextFileModel = 1 /\ ~listening
====
